---------------------------- MODULE Spec2Model ----------------------------
(***************************************************************************)
(* Model of the control-loop engine of chantakan/2d-drone-sim:             *)
(*   - the PIDController class (PIDController.ts),                         *)
(*   - the drone simulator component (DorneSim.tsx): animation-frame tick, *)
(*     cascaded PID, disturbances, dynamics, wall clamp,                   *)
(*   - the cart-pole simulator component (CartPole.tsx): interval tick,    *)
(*     single PID, dynamics, failure policy.                               *)
(*                                                                         *)
(* Numbers.  A JavaScript number is modelled as a pair <<n, d>>:           *)
(*   d > 0  : the rational n/d in lowest terms,                            *)
(*   <<1,0>>: +Infinity,  <<-1,0>>: -Infinity,  <<0,0>>: NaN,              *)
(* with the IEEE-754 rules for the special values.  The controllers'       *)
(* arithmetic is exact; the dynamics round every product, quotient and     *)
(* trigonometric value to the grid 1/Scale, which stands for the rounding  *)
(* of floating point at a coarser precision.  Signed zero is not modelled: *)
(* every divisor that can be zero (ki, dt) is a non-negative input.        *)
(***************************************************************************)
EXTENDS Integers, Sequences, FiniteSets, TLC

\* ------------------------------------------------------------------------
\* Bounds of the model
\* ------------------------------------------------------------------------

\* Resolution of the dynamics' rounding grid (values are multiples of 1/Scale).
Scale == 1000

\* Calls made on the controller of the unit harness.
MaxCalls == 3

\* Animation frames run by the drone simulator.
MaxFrames == 3

\* Host commands (slider and checkbox changes) given to the drone simulator.
MaxCommands == 2

\* Interval ticks run by the cart-pole simulator.
MaxTicks == 18

\* Host commands (buttons, keys, gain fields) given to the cart-pole simulator.
MaxCartCommands == 3

\* Unwrapped angles handed to the normalisation: the multiples of 1/20 rad up
\* to MaxAngle/20 rad (13 rad, beyond 4 pi) on either side of 0.
MaxAngle == 260

\* Applications of the normalisation to one angle.
MaxApplications == 2

\* ------------------------------------------------------------------------
\* JavaScript numbers
\* ------------------------------------------------------------------------

AbsI(i) == IF i < 0 THEN -i ELSE i

SgnI(i) == IF i < 0 THEN -1 ELSE IF i > 0 THEN 1 ELSE 0

RECURSIVE GCD(_, _)
GCD(a, b) == IF b = 0 THEN a ELSE GCD(b, a % b)

\* The number n/d (d > 0) in lowest terms.
R(n, d) ==
  LET g == GCD(AbsI(n), d)
  IN  IF n = 0 THEN <<0, 1>> ELSE <<n \div g, d \div g>>

I(n) == <<n, 1>>

NaN == <<0, 0>>

PInf == <<1, 0>>

NInf == <<-1, 0>>

IsNaN(x) == x = NaN

IsFinite(x) == x[2] > 0

Sign(x) == SgnI(x[1])

\* a + b
Add(a, b) ==
  IF IsNaN(a) \/ IsNaN(b) THEN NaN
  ELSE IF ~IsFinite(a) THEN (IF ~IsFinite(b) /\ a # b THEN NaN ELSE a)
  ELSE IF ~IsFinite(b) THEN b
  ELSE LET g == GCD(a[2], b[2])
       IN  R(a[1] * (b[2] \div g) + b[1] * (a[2] \div g), (a[2] \div g) * b[2])

\* -a
Neg(a) == <<-a[1], a[2]>>

\* a - b
Sub(a, b) == Add(a, Neg(b))

\* a * b
Mul(a, b) ==
  IF IsNaN(a) \/ IsNaN(b) THEN NaN
  ELSE IF ~IsFinite(a) \/ ~IsFinite(b)
       THEN (IF Sign(a) * Sign(b) = 0 THEN NaN ELSE <<Sign(a) * Sign(b), 0>>)
  ELSE LET g1 == GCD(AbsI(a[1]), b[2])
           g2 == GCD(AbsI(b[1]), a[2])
       IN  IF a[1] = 0 \/ b[1] = 0 THEN <<0, 1>>
           ELSE <<(a[1] \div g1) * (b[1] \div g2), (a[2] \div g2) * (b[2] \div g1)>>

\* a / b  (a zero divisor is +0)
Div(a, b) ==
  IF IsNaN(a) \/ IsNaN(b) THEN NaN
  ELSE IF ~IsFinite(a)
       THEN (IF ~IsFinite(b) THEN NaN
             ELSE <<Sign(a) * (IF Sign(b) < 0 THEN -1 ELSE 1), 0>>)
  ELSE IF ~IsFinite(b) THEN <<0, 1>>
  ELSE IF b[1] = 0 THEN <<Sign(a), 0>>
  ELSE Mul(a, <<SgnI(b[1]) * b[2], AbsI(b[1])>>)

\* a < b  (false when either is NaN)
Lt(a, b) ==
  IF IsNaN(a) \/ IsNaN(b) THEN FALSE
  ELSE IF ~IsFinite(a) \/ ~IsFinite(b)
       THEN (IF ~IsFinite(a) /\ ~IsFinite(b) THEN a[1] < b[1]
             ELSE IF ~IsFinite(a) THEN a[1] < 0 ELSE b[1] > 0)
  ELSE LET g == GCD(a[2], b[2])
       IN  a[1] * (b[2] \div g) < b[1] * (a[2] \div g)

\* a > b
Gt(a, b) == Lt(b, a)

\* a <= b
Le(a, b) == ~IsNaN(a) /\ ~IsNaN(b) /\ ~Lt(b, a)

\* a === b
StrictEq(a, b) == ~IsNaN(a) /\ ~IsNaN(b) /\ a = b

\* Math.max(a, b)
MathMax(a, b) == IF IsNaN(a) \/ IsNaN(b) THEN NaN ELSE IF Lt(a, b) THEN b ELSE a

\* Math.min(a, b)
MathMin(a, b) == IF IsNaN(a) \/ IsNaN(b) THEN NaN ELSE IF Lt(b, a) THEN b ELSE a

\* Math.abs(a)
MathAbs(a) == <<AbsI(a[1]), a[2]>>

\* The integer part of a finite number, rounded toward zero.
Trunc(a) == SgnI(a[1]) * (AbsI(a[1]) \div a[2])

\* a % b  (the remainder has the sign of the dividend)
Rem(a, b) ==
  IF ~IsFinite(a) \/ IsNaN(b) \/ b = <<0, 1>> THEN NaN
  ELSE IF ~IsFinite(b) THEN a
  ELSE Sub(a, Mul(b, I(Trunc(Div(a, b)))))

\* Rounding to the nearest multiple of 1/Scale (ties away from zero).  A
\* denominator above 10^6 is first cut to that resolution.
Quant(a) ==
  IF ~IsFinite(a) THEN a
  ELSE LET m == AbsI(a[1])
           q == m \div a[2]
           k == (a[2] \div 1000000) + 1
           d == a[2] \div k
           r == (m % a[2]) \div k
           f == (2 * r * Scale + d) \div (2 * d)
       IN  R(SgnI(a[1]) * (q * Scale + f), Scale)

\* a + b, a - b, a * b, a / b as the dynamics compute them
AddQ(a, b) == Quant(Add(a, b))

SubQ(a, b) == Quant(Sub(a, b))

MulQ(a, b) == Quant(Mul(a, b))

DivQ(a, b) == Quant(Div(a, b))

\* Math.PI
PI == Quant(R(355, 113))

\* The element of a one-element set.  { e(x) : x \in { v } } is how a
\* constant declaration (const x = v; ... e(x)) is written below: v is
\* computed once and named.
The(S) == CHOOSE r \in S : TRUE

\* The angle a brought into [-PI, PI].
TrigArg(a) ==
  The({ IF Gt(y, PI) THEN Sub(y, Mul(I(2), PI))
        ELSE IF Lt(y, Neg(PI)) THEN Add(y, Mul(I(2), PI)) ELSE y
        : y \in { Rem(a, Mul(I(2), PI)) } })

\* The series y - y^3/3! + y^5/5! - y^7/7! + y^9/9!, kept within [-1, 1].
SinSeries(y) ==
  The({ MathMax(I(-1), MathMin(I(1),
          MulQ(y, SubQ(I(1), MulQ(DivQ(y2, I(6)),
               SubQ(I(1), MulQ(DivQ(y2, I(20)),
               SubQ(I(1), MulQ(DivQ(y2, I(42)),
               SubQ(I(1), DivQ(y2, I(72))))))))))))
        : y2 \in { MulQ(y, y) } })

\* The series 1 - y^2/2! + y^4/4! - y^6/6! + y^8/8!, kept within [-1, 1].
CosSeries(y) ==
  The({ MathMax(I(-1), MathMin(I(1),
          SubQ(I(1), MulQ(DivQ(y2, I(2)),
          SubQ(I(1), MulQ(DivQ(y2, I(12)),
          SubQ(I(1), MulQ(DivQ(y2, I(30)),
          SubQ(I(1), DivQ(y2, I(56)))))))))))
        : y2 \in { MulQ(y, y) } })

\* Math.sin(a): sin(z) for |z| <= PI/2, and sin(z) = sin(PI - z),
\* sin(z) = sin(-PI - z) beyond.
MathSin(a) ==
  IF ~IsFinite(a) THEN NaN
  ELSE The({ SinSeries(IF Gt(z, Div(PI, I(2))) THEN Sub(PI, z)
                       ELSE IF Lt(z, Neg(Div(PI, I(2)))) THEN Sub(Neg(PI), z)
                       ELSE z)
             : z \in { Quant(TrigArg(a)) } })

\* Math.cos(a): cos(z) for |z| <= PI/2, and cos(z) = -cos(PI - |z|) beyond.
MathCos(a) ==
  IF ~IsFinite(a) THEN NaN
  ELSE The({ IF Gt(z, Div(PI, I(2))) THEN Neg(CosSeries(Sub(PI, z)))
             ELSE CosSeries(z)
             : z \in { MathAbs(Quant(TrigArg(a))) } })

\* ------------------------------------------------------------------------
\* PIDController (PIDController.ts)
\* ------------------------------------------------------------------------

\* new PIDController(kp, ki, kd, outputMin, outputMax)
PIDController(kp, ki, kd, outputMin, outputMax) ==
  [kp |-> kp, ki |-> ki, kd |-> kd,
   outputMin |-> outputMin, outputMax |-> outputMax,
   prevError |-> I(0), integral |-> I(0), lastTime |-> "null"]

\* Anti-windup with the clamp left out (the accumulated integral is kept).
antiWindupOff(c, integral, error) == integral

\* Anti-windup: the accumulated integral clamped into [minIntegral, maxIntegral].
antiWindup(c, integral, error) ==
  LET maxIntegral == Div(Sub(c.outputMax, Mul(c.kp, error)), c.ki)
      minIntegral == Div(Sub(c.outputMin, Mul(c.kp, error)), c.ki)
  IN  MathMin(MathMax(integral, minIntegral), maxIntegral)

\* update(setpoint, measured, dt): the controller after the call and the
\* value returned.
update(c, setpoint, measured, dt) ==
  The({ The({ [ctrl |-> [c EXCEPT !.integral = integral, !.prevError = error],
               output |->
                 MathMin(MathMax(Add(Add(Mul(c.kp, error), Mul(c.ki, integral)),
                                     Mul(c.kd, derivative)),
                                 c.outputMin),
                         c.outputMax)]
              : integral \in { antiWindup(c, Add(c.integral, Mul(error, dt)), error) },
                derivative \in { Div(Sub(error, c.prevError), dt) } })
        : error \in { Sub(setpoint, measured) } })

\* reset() leaving the accumulated integral in place.
resetKeepsIntegral(c) == [c EXCEPT !.prevError = I(0), !.lastTime = "null"]

\* reset() that also puts the gains back to zero.
resetClearsGains(c) ==
  [c EXCEPT !.prevError = I(0), !.integral = I(0), !.lastTime = "null",
            !.kp = I(0), !.ki = I(0), !.kd = I(0)]

\* reset()
reset(c) == [c EXCEPT !.prevError = I(0), !.integral = I(0), !.lastTime = "null"]

\* setGains(kp, ki, kd) that also clears the accumulated integral.
setGainsClearsIntegral(c, kp, ki, kd) ==
  [c EXCEPT !.kp = kp, !.ki = ki, !.kd = kd, !.integral = I(0)]

\* setGains(kp, ki, kd)
setGains(c, kp, ki, kd) == [c EXCEPT !.kp = kp, !.ki = ki, !.kd = kd]


\* ------------------------------------------------------------------------
\* Drone simulator (DorneSim.tsx): constants and the tick's computations
\* ------------------------------------------------------------------------

DEFAULT_PHYSICS_PARAMS ==
  [GRAVITY |-> R(98, 10), MASS |-> I(1), MOMENT_OF_INERTIA |-> R(1, 10),
   DRAG_COEFFICIENT |-> R(1, 10), ANGULAR_DRAG_COEFFICIENT |-> R(1, 2),
   THRUST_DISTANCE |-> R(4, 10), CENTER_OF_MASS_OFFSET |-> I(0),
   LEFT_THRUST_EFFICIENCY |-> I(1), RIGHT_THRUST_EFFICIENCY |-> I(1)]

DEFAULT_DISTURBANCE_CONFIG ==
  [wind |-> [enabled |-> TRUE, baseSpeed |-> I(0), gustFrequency |-> I(0),
             gustMagnitude |-> I(0), turbulenceIntensity |-> I(0)],
   thrust |-> [enabled |-> TRUE, magnitude |-> I(0), frequency |-> I(10)]]

DEFAULT_PID_CONFIG ==
  [enabled |-> TRUE,
   attitude |-> [kp |-> I(8), ki |-> R(1, 2), kd |-> I(0)],
   position |-> [horizontal |-> [kp |-> I(1), ki |-> R(1, 20), kd |-> I(0)],
                 vertical |-> [kp |-> R(3, 2), ki |-> R(1, 20), kd |-> I(0)]]]

\* useState<PhysicsState>(...)
InitialPhysicsState ==
  [position |-> [x |-> I(100), y |-> I(150)],
   velocity |-> [x |-> I(0), y |-> I(0)],
   rotation |-> I(0), angularVelocity |-> I(0)]

\* useRef(new PIDController(...)) for the attitude loop
NewAttitudePID ==
  PIDController(DEFAULT_PID_CONFIG.attitude.kp, DEFAULT_PID_CONFIG.attitude.ki,
                DEFAULT_PID_CONFIG.attitude.kd, I(-1), I(1))

\* useRef(new PIDController(...)) for the horizontal position loop
NewHorizontalPositionPID ==
  PIDController(DEFAULT_PID_CONFIG.position.horizontal.kp,
                DEFAULT_PID_CONFIG.position.horizontal.ki,
                DEFAULT_PID_CONFIG.position.horizontal.kd,
                Neg(Div(PI, I(6))), Div(PI, I(6)))

\* useRef(new PIDController(...)) for the vertical position loop
NewVerticalPositionPID ==
  PIDController(DEFAULT_PID_CONFIG.position.vertical.kp,
                DEFAULT_PID_CONFIG.position.vertical.ki,
                DEFAULT_PID_CONFIG.position.vertical.kd, I(-2), I(2))

\* calculateDisturbances(deltaTime) with the three Math.random() draws given:
\* the wind force, the thrust-noise factors and the wind clock afterwards.
calculateDisturbances(cfg, wst, deltaTime, rTurb, rLeft, rRight) ==
  LET wind == cfg.wind
      thrust == cfg.thrust
      time == IF wind.enabled THEN Add(wst.time, deltaTime) ELSE wst.time
      gustPhase == MulQ(MulQ(MulQ(I(2), PI), wind.gustFrequency), time)
      gustEffect == MulQ(MathSin(gustPhase), wind.gustMagnitude)
      turbulence == MulQ(MulQ(SubQ(rTurb, R(1, 2)), I(2)), wind.turbulenceIntensity)
      noise(r) == AddQ(I(1), MulQ(MulQ(SubQ(r, R(1, 2)), I(2)), thrust.magnitude))
  IN  [windForce |-> IF wind.enabled
                     THEN AddQ(wind.baseSpeed, AddQ(gustEffect, turbulence))
                     ELSE I(0),
       thrustNoise |-> IF thrust.enabled
                       THEN [left |-> noise(rLeft), right |-> noise(rRight)]
                       ELSE [left |-> I(1), right |-> I(1)],
       windState |-> [wst EXCEPT !.time = time]]

\* The control part of updatePhysics (PID enabled): the three controller
\* updates and the mixing; the thrusts for the dynamics and the controllers
\* afterwards.
controlCascade(ps, att, hor, ver, dt) ==
  The({ The({ [left |-> MathMin(MathMax(Add(Add(R(49, 10), v.output), a.output),
                                        I(0)), I(100)),
               right |-> MathMin(MathMax(Sub(Add(R(49, 10), v.output), a.output),
                                         I(0)), I(100)),
               attitude |-> a.ctrl, horizontal |-> h.ctrl, vertical |-> v.ctrl,
               verticalControl |-> v.output, horizontalControl |-> h.output,
               attitudeControl |-> a.output, targetRotation |-> Neg(h.output)]
              : a \in { update(att, Neg(h.output), ps.rotation, dt) } })
        : v \in { update(ver, I(150), ps.position.y, dt) },
          h \in { update(hor, I(300), ps.position.x, dt) } })

\* The wall policy of updatePhysics: the position clamped to the domain and
\* the velocity of a clamped axis set to 0.
wallPolicy(newPositionX, newPositionY, newVelocityX, newVelocityY) ==
  The({ [position |-> [x |-> finalPositionX, y |-> finalPositionY],
         velocity |->
           [x |-> IF StrictEq(finalPositionX, I(10)) \/ StrictEq(finalPositionX, I(590))
                  THEN I(0) ELSE newVelocityX,
            y |-> IF StrictEq(finalPositionY, I(10)) \/ StrictEq(finalPositionY, I(290))
                  THEN I(0) ELSE newVelocityY]]
        : finalPositionY \in { MathMin(MathMax(newPositionY, I(10)), I(290)) },
          finalPositionX \in { MathMin(MathMax(newPositionX, I(10)), I(590)) } })

\* The velocities and positions of updatePhysics from the accelerations.
integrate(ps, angularAcceleration, verticalAcceleration, horizontalAcceleration, dt) ==
  The({ The({ [position |-> w.position, velocity |-> w.velocity,
               rotation |-> AddQ(ps.rotation, MulQ(newAngularVelocity, dt)),
               angularVelocity |-> newAngularVelocity]
              : w \in { wallPolicy(AddQ(ps.position.x, MulQ(newVelocityX, dt)),
                                   SubQ(ps.position.y, MulQ(newVelocityY, dt)),
                                   newVelocityX, newVelocityY) } })
        : newAngularVelocity \in { AddQ(ps.angularVelocity, MulQ(angularAcceleration, dt)) },
          newVelocityY \in { AddQ(ps.velocity.y, MulQ(verticalAcceleration, dt)) },
          newVelocityX \in { AddQ(ps.velocity.x, MulQ(horizontalAcceleration, dt)) } })

\* currentThrust * params.EFFICIENCY * thrustNoise
effectiveThrust(currentThrust, efficiency, noise) ==
  MulQ(MulQ(currentThrust, efficiency), noise)

\* const torque = ... of updatePhysics
torque(effectiveLeftThrust, effectiveRightThrust) ==
  SubQ(MulQ(effectiveRightThrust,
            AddQ(DEFAULT_PHYSICS_PARAMS.THRUST_DISTANCE,
                 DEFAULT_PHYSICS_PARAMS.CENTER_OF_MASS_OFFSET)),
       MulQ(effectiveLeftThrust,
            SubQ(DEFAULT_PHYSICS_PARAMS.THRUST_DISTANCE,
                 DEFAULT_PHYSICS_PARAMS.CENTER_OF_MASS_OFFSET)))

\* The dynamics part of updatePhysics: the new PhysicsState from the thrusts
\* handed to it, the wind force and the thrust noise.
dynamics(ps, currentLeftThrust, currentRightThrust, windForce, thrustNoise, dt) ==
  The({ The({ integrate(ps,
                DivQ(SubQ(torque(effectiveLeftThrust, effectiveRightThrust),
                          MulQ(params.ANGULAR_DRAG_COEFFICIENT, ps.angularVelocity)),
                     params.MOMENT_OF_INERTIA),
                DivQ(SubQ(SubQ(MulQ(totalThrust, MathCos(ps.rotation)),
                               MulQ(params.MASS, params.GRAVITY)),
                          MulQ(MulQ(params.DRAG_COEFFICIENT, ps.velocity.y),
                               MathAbs(ps.velocity.y))),
                     params.MASS),
                DivQ(SubQ(AddQ(MulQ(totalThrust, MathSin(ps.rotation)), windForce),
                          MulQ(MulQ(params.DRAG_COEFFICIENT, ps.velocity.x),
                               MathAbs(ps.velocity.x))),
                     params.MASS),
                dt)
              : totalThrust \in { AddQ(effectiveLeftThrust, effectiveRightThrust) } })
        : params \in { DEFAULT_PHYSICS_PARAMS },
          effectiveLeftThrust \in
            { effectiveThrust(currentLeftThrust,
                              DEFAULT_PHYSICS_PARAMS.LEFT_THRUST_EFFICIENCY,
                              thrustNoise.left) },
          effectiveRightThrust \in
            { effectiveThrust(currentRightThrust,
                              DEFAULT_PHYSICS_PARAMS.RIGHT_THRUST_EFFICIENCY,
                              thrustNoise.right) } })

\* The parts of updatePhysics in the order of its statements: the thrusts
\* (the controller cascade under the PID system, else the manual ones), the
\* call of calculateDisturbances, the dynamics, the wall policy.
tickOrderDisturbancesFirst(pidEnabled) ==
  <<"disturbances", IF pidEnabled THEN "control" ELSE "manual", "dynamics", "bounds">>

tickOrder(pidEnabled) ==
  <<IF pidEnabled THEN "control" ELSE "manual", "disturbances", "dynamics", "bounds">>

\* updatePhysics(deltaTime) as the closure that captured pidEnabled runs it:
\* control (or the manual thrusts), then disturbances, then dynamics.
updatePhysics(pidEnabled, ps, left, right, cfg, att, hor, ver, wst, deltaTime, rTurb, rLeft, rRight) ==
  The({ [physicsState |-> dynamics(ps, c.left, c.right, d.windForce, d.thrustNoise,
                                   Div(deltaTime, I(100))),
         attitude |-> c.attitude, horizontal |-> c.horizontal,
         vertical |-> c.vertical, windState |-> d.windState,
         left |-> c.left, right |-> c.right, dt |-> Div(deltaTime, I(100)),
         verticalControl |-> c.verticalControl,
         horizontalControl |-> c.horizontalControl,
         attitudeControl |-> c.attitudeControl,
         targetRotation |-> c.targetRotation,
         windForce |-> d.windForce, order |-> tickOrder(pidEnabled),
         thrustNoise |-> d.thrustNoise,
         torque |-> torque(effectiveThrust(c.left,
                                           DEFAULT_PHYSICS_PARAMS.LEFT_THRUST_EFFICIENCY,
                                           d.thrustNoise.left),
                           effectiveThrust(c.right,
                                           DEFAULT_PHYSICS_PARAMS.RIGHT_THRUST_EFFICIENCY,
                                           d.thrustNoise.right))]
        : c \in { IF pidEnabled
                  THEN controlCascade(ps, att, hor, ver, Div(deltaTime, I(100)))
                  ELSE [left |-> left, right |-> right, attitude |-> att,
                        horizontal |-> hor, vertical |-> ver,
                        verticalControl |-> I(0), horizontalControl |-> I(0),
                        attitudeControl |-> I(0), targetRotation |-> I(0)] },
          d \in { calculateDisturbances(cfg, wst, deltaTime, rTurb, rLeft, rRight) } })

\* ------------------------------------------------------------------------
\* Cart-pole simulator: computations
\* ------------------------------------------------------------------------

\* Gravity with the sign of the other convention.
gravityUp == R(-981, 100)

gravity == R(981, 100)

cartMass == I(1)

poleMass == R(1, 10)

totalMass == Add(cartMass, poleMass)

poleLength == R(1, 2)

dt == R(2, 100)

maxForce == I(15)

\* useState<CartPoleState> initial value, also the state the reset button sets
InitialCartPoleState ==
  [x |-> I(0), theta |-> R(1, 10), dx |-> I(0), dtheta |-> I(0), score |-> 0]

\* useState<PIDController> initial value
InitialCartPID ==
  [target |-> I(0), kp |-> I(30), ki |-> R(1, 10), kd |-> I(10),
   integral |-> I(0), lastError |-> I(0)]

\* calculatePIDControl(state, controller): the force returned and the
\* controller object as the call leaves it (it writes integral and lastError
\* into the object it is given).
calculatePIDControl(st, controller) ==
  The({ The({ [force |->
                 MathMax(Neg(maxForce),
                         MathMin(maxForce,
                                 Add(Add(Mul(controller.kp, error),
                                         Mul(controller.ki, integral)),
                                     Mul(controller.kd,
                                         Div(Sub(error, controller.lastError), dt))))),
               controller |-> [controller EXCEPT !.integral = integral,
                                                 !.lastError = error]]
              : integral \in { Add(controller.integral, Mul(error, dt)) } })
        : error \in { Sub(st.theta, controller.target) } })

\* The angle normalisation of updatePhysics: into [0, 2 PI), then (-PI, PI].
normalizeTheta(newTheta) ==
  The({ The({ IF Gt(normalizedTheta, PI) THEN SubQ(normalizedTheta, twoPi)
              ELSE normalizedTheta
              : normalizedTheta \in { Rem(AddQ(Rem(newTheta, twoPi), twoPi), twoPi) } })
        : twoPi \in { MulQ(I(2), PI) } })

\* A score that a tick does not raise.
nextScoreSame(score) == score

\* score: currentState.score + 1
nextScore(score) == score + 1

\* updatePhysics(currentState, appliedForce) of the cart-pole: one explicit
\* Euler step, the angle normalised, the score incremented.
cartUpdatePhysics(currentState, appliedForce) ==
  The({ The({ The({ The({
    [x |-> AddQ(currentState.x, MulQ(currentState.dx, dt)),
     theta |-> normalizeTheta(AddQ(currentState.theta, MulQ(dtheta, dt))),
     dx |-> AddQ(currentState.dx, MulQ(ddx, dt)),
     dtheta |-> AddQ(dtheta, MulQ(ddtheta, dt)),
     score |-> nextScore(currentState.score)]
    : ddx \in
        { DivQ(SubQ(AddQ(AddQ(appliedForce, poleForce),
                         MulQ(MulQ(MulQ(poleMass, poleLength), ddtheta), cosTheta)),
                    MulQ(MulQ(MulQ(MulQ(poleMass, poleLength), dtheta), dtheta),
                         sinTheta)),
               totalMass) } })
    : ddtheta \in
        { DivQ(SubQ(MulQ(MulQ(gravity, sinTheta), totalMass),
                    MulQ(AddQ(appliedForce, poleForce), cosTheta)),
               MulQ(poleLength, temp)) } })
    : poleForce \in
        { MulQ(MulQ(MulQ(MulQ(poleMass, poleLength), dtheta), dtheta), sinTheta) },
      temp \in { SubQ(totalMass, MulQ(MulQ(poleMass, cosTheta), cosTheta)) } })
    : dtheta \in { currentState.dtheta },
      cosTheta \in { MathCos(currentState.theta) },
      sinTheta \in { MathSin(currentState.theta) } })

\* The parts of the interval callback in the order of its statements: the
\* force (calculatePIDControl under the autopilot, else the keyboard's), the
\* call of updatePhysics, the failure check.
cartTickOrder(autoPilot) ==
  <<IF autoPilot THEN "control" ELSE "manual", "dynamics", "failure">>

\* A failure condition that never holds.
failedNever(newState) == FALSE

\* The failure condition of the interval callback.
failed(newState) ==
  \/ Gt(MathAbs(newState.x), R(24, 10))
  \/ Gt(MathAbs(newState.theta), MulQ(PI, R(1, 2)))

\* ------------------------------------------------------------------------
\* Timers: requestAnimationFrame and setInterval
\* ------------------------------------------------------------------------

\* A handle not in use: the smallest positive integer outside used.
freshHandle(used) ==
  CHOOSE h \in 1..(Cardinality(used) + 1) :
    h \notin used /\ \A g \in 1..(h - 1) : g \in used

\* The handles of the callbacks in p.
Handles(p) == { cb.handle : cb \in p }

\* requestAnimationFrame(animate), animate closed over pidEnabled: the
\* callbacks held afterwards and the handle returned.
requestAnimationFrame(p, pidEnabled) ==
  The({ [pending |-> p \cup { [handle |-> h, pidEnabled |-> pidEnabled] },
         handle |-> h]
        : h \in { freshHandle(Handles(p)) } })

\* A cancelAnimationFrame that cancels nothing.
cancelAnimationFrameNot(p, handle) == p

\* cancelAnimationFrame(handle)
cancelAnimationFrame(p, handle) == { cb \in p : cb.handle # handle }

\* The animate effect when one of its dependencies changed: the cleanup of
\* the last run (cancelAnimationFrame(animationFrameRef.current)), then the
\* request for the callback of this render.
animateEffect(p, ref, cfg) ==
  requestAnimationFrame(cancelAnimationFrame(p, ref), cfg.enabled)

\* setInterval(...): the active intervals afterwards and the handle returned.
setInterval(ivs) ==
  The({ [intervals |-> ivs \cup {h}, handle |-> h] : h \in { freshHandle(ivs) } })

\* clearInterval(handle); handle 0 stands for no cleanup to run.
clearInterval(ivs, handle) == ivs \ {handle}

\* The interval effect after a render: when one of its dependencies changed
\* the cleanup of the last run clears its interval, and a new interval is set
\* if isRunning.
intervalEffect(ivs, cleanup, changed, running) ==
  IF ~changed THEN [intervals |-> ivs, handle |-> cleanup]
  ELSE IF running THEN setInterval(clearInterval(ivs, cleanup))
  ELSE [intervals |-> clearInterval(ivs, cleanup), handle |-> 0]

\* ------------------------------------------------------------------------
\* State
\* ------------------------------------------------------------------------

VARIABLES
  sim,     \* which part runs: "pid" (one controller driven call by call),
           \* "drone" (the DroneSimulator route), "cart" (the CartPoleSimulator
           \* route), "angle" (the cart-pole's angle normalisation on its own)
  pid,     \* harness: the PIDController object
  calls,   \* harness: calls made so far
  last,    \* harness: the last call, its arguments, the controller before it
           \* and the value it returned
  physicsState,              \* drone: useState PhysicsState
  leftThrust, rightThrust,   \* drone: useState manual thrusts
  disturbanceConfig,         \* drone: useState DisturbanceConfig
  pidConfig,                 \* drone: useState PIDConfig
  attitudePID,               \* drone: attitudePIDRef.current
  horizontalPositionPID,     \* drone: horizontalPositionPIDRef.current
  verticalPositionPID,       \* drone: verticalPositionPIDRef.current
  windState,                 \* drone: windStateRef.current
  animate,                   \* drone: the animate callback the effect registered
                             \* last: what its closure captured
  pending,                   \* drone: the callbacks requestAnimationFrame holds,
                             \* each with its handle and what it captured
  animationFrameRef,         \* drone: animationFrameRef.current
  frames, commands,          \* drone: frames run and host commands given so far
  droneLast,                 \* drone: the last step and what its tick handed
                             \* to the dynamics
  reenable,                  \* drone: progress of "disabled, then enabled again,
                             \* then the first controller update"
  state,                     \* cart-pole: useState CartPoleState
  pidController,             \* cart-pole: useState PIDController (a plain object)
  isRunning,                 \* cart-pole: useState isRunning
  force,                     \* cart-pole: useState force (keyboard)
  isAutoPilot,               \* cart-pole: useState isAutoPilot
  intervals,                 \* cart-pole: the handles of the active intervals
  intervalCleanup,           \* cart-pole: the handle the effect's cleanup will
                             \* clear (0: the effect set no interval)
  ticks, cartCommands,       \* cart-pole: interval ticks run and host commands
                             \* given so far
  cartLast,                  \* cart-pole: the last step, the state and the
                             \* controller before it, the state it computed
  newTheta,                  \* normalisation: the unwrapped angle
  finalTheta,                \* normalisation: the angle after the applications
  applications               \* normalisation: applications so far

harnessVars == <<pid, calls, last>>

droneVars ==
  <<physicsState, leftThrust, rightThrust, disturbanceConfig, pidConfig,
    attitudePID, horizontalPositionPID, verticalPositionPID, windState,
    animate, pending, animationFrameRef, frames, commands, droneLast, reenable>>

cartVars ==
  <<state, pidController, isRunning, force, isAutoPilot, intervals,
    intervalCleanup, ticks, cartCommands, cartLast>>

angleVars == <<newTheta, finalTheta, applications>>

vars == <<sim, harnessVars, droneVars, cartVars, angleVars>>

\* ------------------------------------------------------------------------
\* Unit harness: one PIDController, called from outside
\* ------------------------------------------------------------------------

\* Gain triples <<kp, ki, kd>> given to the constructor and to setGains.
HarnessGains ==
  { <<I(1), I(0), I(0)>>, <<I(8), R(1, 2), I(0)>>, <<I(1), R(1, 2), I(1)>>,
    <<I(2), I(0), I(1)>> }

\* Output clamps <<outputMin, outputMax>>: a finite range and the constructor's default.
HarnessClamps == { <<I(-1), I(1)>>, <<NInf, PInf>> }

HarnessSetpoints == { I(0), I(2) }

HarnessMeasured == { I(0), I(1), I(5) }

\* dt of a call: a repeated timestamp (0) and a 20 ms frame (deltaTime / 100).
HarnessDts == { I(0), R(1, 5) }

\* The drone component as mounted: useState and useRef initial values, and
\* the first animate callback requested.
DroneMounted ==
  /\ physicsState = InitialPhysicsState
  /\ leftThrust = R(49, 10)
  /\ rightThrust = R(49, 10)
  /\ disturbanceConfig = DEFAULT_DISTURBANCE_CONFIG
  /\ pidConfig = DEFAULT_PID_CONFIG
  /\ attitudePID = NewAttitudePID
  /\ horizontalPositionPID = NewHorizontalPositionPID
  /\ verticalPositionPID = NewVerticalPositionPID
  /\ windState = [time |-> I(0), currentGust |-> I(0)]
  /\ animate = [pidEnabled |-> DEFAULT_PID_CONFIG.enabled]
  /\ pending = requestAnimationFrame({}, DEFAULT_PID_CONFIG.enabled).pending
  /\ animationFrameRef = requestAnimationFrame({}, DEFAULT_PID_CONFIG.enabled).handle
  /\ frames = 0
  /\ commands = 0
  /\ droneLast = [op |-> "mount", ranPid |-> FALSE, left |-> I(0),
                  right |-> I(0), dt |-> I(0)]
  /\ reenable = "idle"

\* The cart-pole component as mounted: useState initial values.
CartMounted ==
  /\ state = InitialCartPoleState
  /\ pidController = InitialCartPID
  /\ isRunning = FALSE
  /\ force = I(0)
  /\ isAutoPilot = FALSE
  /\ intervals = {}
  /\ intervalCleanup = 0
  /\ ticks = 0
  /\ cartCommands = 0
  /\ cartLast = [op |-> "mount", pre |-> InitialCartPoleState,
                 prePid |-> InitialCartPID, computed |-> InitialCartPoleState,
                 wasRunning |-> FALSE, afterReset |-> FALSE, hadHistory |-> FALSE,
                 twice |-> FALSE, origin |-> FALSE, order |-> <<>>,
                 successes |-> 0]

\* No angle under normalisation.
AngleIdle == newTheta = I(0) /\ finalTheta = I(0) /\ applications = 0

NoCall ==
  [op |-> "new", pre |-> PIDController(I(0), I(0), I(0), I(0), I(0)),
   setpoint |-> I(0), measured |-> I(0), dt |-> I(0), output |-> I(0),
   afterReset |-> FALSE, hadHistory |-> FALSE]

HarnessIdle ==
  /\ pid = PIDController(I(0), I(0), I(0), I(0), I(0))
  /\ calls = 0
  /\ last = NoCall

HarnessInit ==
  /\ sim = "pid"
  /\ \E g \in HarnessGains, b \in HarnessClamps :
       pid = PIDController(g[1], g[2], g[3], b[1], b[2])
  /\ calls = 0
  /\ last = NoCall
  /\ DroneMounted
  /\ CartMounted
  /\ AngleIdle

HarnessUpdate ==
  /\ sim = "pid"
  /\ calls < MaxCalls
  /\ \E s \in HarnessSetpoints, m \in HarnessMeasured, step \in HarnessDts :
       \E r \in { update(pid, s, m, step) } :
         /\ pid' = r.ctrl
         /\ last' = [op |-> "update", pre |-> pid, setpoint |-> s, measured |-> m,
                     dt |-> step, output |-> r.output,
                     afterReset |-> last.op = "reset",
                     hadHistory |-> last.op = "reset" /\ last.hadHistory]
  /\ calls' = calls + 1
  /\ UNCHANGED <<sim, angleVars, droneVars, cartVars>>

HarnessReset ==
  /\ sim = "pid"
  /\ calls < MaxCalls
  /\ pid' = reset(pid)
  /\ last' = [NoCall EXCEPT !.op = "reset", !.pre = pid,
                            !.hadHistory = pid.integral # I(0) /\ pid.prevError # I(0)]
  /\ calls' = calls + 1
  /\ UNCHANGED <<sim, angleVars, droneVars, cartVars>>

HarnessSetGains ==
  /\ sim = "pid"
  /\ calls < MaxCalls
  /\ \E g \in HarnessGains :
       /\ pid' = setGains(pid, g[1], g[2], g[3])
       /\ last' = [NoCall EXCEPT !.op = "setGains", !.pre = pid]
  /\ calls' = calls + 1
  /\ UNCHANGED <<sim, angleVars, droneVars, cartVars>>

HarnessNext == HarnessUpdate \/ HarnessReset \/ HarnessSetGains

SpecPID == HarnessInit /\ [][HarnessNext]_vars

\* ------------------------------------------------------------------------
\* Drone simulator: frames and host commands
\* ------------------------------------------------------------------------

\* Date.now() differences between two frames, in ms: the same timestamp
\* twice, and a 20 ms frame.
DeltaTimes == { I(0), I(20) }

\* Values of Math.random(): the two ends of [0, 1).  A draw that the
\* configuration multiplies by 0 (or does not use) is taken once.
Draws(used) == IF used THEN { I(0), R(999, 1000) } ELSE { I(0) }

\* The value a thrust slider (range 0..10) is moved to.
ThrustValues == { I(10) }

\* The value a gain slider is moved to: the minimum 0 for the integral gains
\* and for the horizontal kp (whose default is its maximum), the maximum for
\* the others.
GainValues(loop, k) ==
  IF k = "ki" \/ (loop = "horizontal" /\ k = "kp") THEN { I(0) }
  ELSE IF loop = "attitude" THEN { IF k = "kp" THEN I(4) ELSE I(2) }
  ELSE { I(1) }

\* The animate effect (deps: physicsState, leftThrust, rightThrust,
\* disturbanceConfig) registers a callback closed over this render's pidConfig.
registerAnimate(cfg) == [pidEnabled |-> cfg.enabled]

\* The animate effect runs again on the callbacks p held and the handle ref
\* in animationFrameRef.current.
RunAnimateEffect(p, ref) ==
  \E e \in { animateEffect(p, ref, pidConfig) } :
    pending' = e.pending /\ animationFrameRef' = e.handle

\* One animation frame: a callback requestAnimationFrame holds runs;
\* animate() runs updatePhysics(deltaTime) in its closure and requests itself
\* again; setPhysicsState re-renders and the animate effect cancels the
\* request animationFrameRef names and requests the callback of the new render.
AnimationFrame ==
  /\ sim = "drone"
  /\ frames < MaxFrames
  /\ \E cb \in pending,
        deltaTime \in DeltaTimes,
        rTurb \in Draws(disturbanceConfig.wind.enabled
                        /\ disturbanceConfig.wind.turbulenceIntensity # I(0)),
        rLeft \in Draws(disturbanceConfig.thrust.enabled
                        /\ disturbanceConfig.thrust.magnitude # I(0)),
        rRight \in Draws(disturbanceConfig.thrust.enabled
                         /\ disturbanceConfig.thrust.magnitude # I(0)) :
       \E u \in { updatePhysics(cb.pidEnabled, physicsState, leftThrust,
                                rightThrust, disturbanceConfig, attitudePID,
                                horizontalPositionPID, verticalPositionPID,
                                windState, deltaTime, rTurb, rLeft, rRight) },
          again \in { requestAnimationFrame(pending \ {cb}, cb.pidEnabled) } :
         /\ physicsState' = u.physicsState
         /\ attitudePID' = u.attitude
         /\ horizontalPositionPID' = u.horizontal
         /\ verticalPositionPID' = u.vertical
         /\ windState' = u.windState
         /\ droneLast' = [op |-> "frame", ranPid |-> cb.pidEnabled,
                          left |-> u.left, right |-> u.right, dt |-> u.dt,
                          verticalControl |-> u.verticalControl,
                          horizontalControl |-> u.horizontalControl,
                          attitudeControl |-> u.attitudeControl,
                          targetRotation |-> u.targetRotation,
                          rotation |-> physicsState.rotation,
                          attitudeBefore |-> attitudePID,
                          windForce |-> u.windForce, windBefore |-> windState.time,
                          windEnabled |-> disturbanceConfig.wind.enabled,
                          deltaTime |-> deltaTime, order |-> u.order,
                          thrustNoise |-> u.thrustNoise, torque |-> u.torque,
                          position |-> physicsState.position,
                          verticalFresh |-> /\ verticalPositionPID.integral = I(0)
                                            /\ verticalPositionPID.prevError = I(0),
                          fresh |-> \A c \in {attitudePID, horizontalPositionPID,
                                               verticalPositionPID} :
                                      c.integral = I(0) /\ c.prevError = I(0)]
         /\ reenable' =
              IF cb.pidEnabled /\ reenable = "armed"
              THEN (IF \A c \in {attitudePID, horizontalPositionPID,
                                  verticalPositionPID} :
                          c.integral = I(0) /\ c.prevError = I(0)
                    THEN "zero" ELSE "nonzero")
              ELSE reenable
         /\ RunAnimateEffect(again.pending, again.handle)
  /\ animate' = registerAnimate(pidConfig)
  /\ frames' = frames + 1
  /\ UNCHANGED <<sim, angleVars, harnessVars, cartVars, leftThrust, rightThrust,
                 disturbanceConfig, pidConfig, commands>>

\* A command's record in droneLast.
Command(op) ==
  [op |-> op, ranPid |-> FALSE, left |-> I(0), right |-> I(0), dt |-> I(0)]

\* The left thrust slider: setLeftThrust(v); the animate effect runs again.
SetLeftThrust ==
  /\ sim = "drone"
  /\ commands < MaxCommands
  /\ \E v \in ThrustValues : v # leftThrust /\ leftThrust' = v
  /\ animate' = registerAnimate(pidConfig)
  /\ RunAnimateEffect(pending, animationFrameRef)
  /\ droneLast' = Command("setLeftThrust")
  /\ commands' = commands + 1
  /\ UNCHANGED <<sim, angleVars, harnessVars, cartVars, physicsState, rightThrust, disturbanceConfig,
                 pidConfig, attitudePID, horizontalPositionPID,
                 verticalPositionPID, windState, frames, reenable>>

\* The right thrust slider: setRightThrust(v); the animate effect runs again.
SetRightThrust ==
  /\ sim = "drone"
  /\ commands < MaxCommands
  /\ \E v \in ThrustValues : v # rightThrust /\ rightThrust' = v
  /\ animate' = registerAnimate(pidConfig)
  /\ RunAnimateEffect(pending, animationFrameRef)
  /\ droneLast' = Command("setRightThrust")
  /\ commands' = commands + 1
  /\ UNCHANGED <<sim, angleVars, harnessVars, cartVars, physicsState, leftThrust, disturbanceConfig,
                 pidConfig, attitudePID, horizontalPositionPID,
                 verticalPositionPID, windState, frames, reenable>>

\* The disturbance controls: setDisturbanceConfig(prev => ...) with a new
\* object; the animate effect runs again.  A slider shows only while its
\* sub-model is enabled.
SetDisturbanceConfig ==
  /\ sim = "drone"
  /\ commands < MaxCommands
  /\ \/ disturbanceConfig' =
          [disturbanceConfig EXCEPT !.wind.enabled = ~@]
     \/ /\ disturbanceConfig.wind.enabled
        /\ disturbanceConfig' = [disturbanceConfig EXCEPT !.wind.baseSpeed = I(2)]
     \/ /\ disturbanceConfig.wind.enabled
        /\ disturbanceConfig' = [disturbanceConfig EXCEPT !.wind.gustMagnitude = I(2)]
     \/ disturbanceConfig' =
          [disturbanceConfig EXCEPT !.thrust.enabled = ~@]
     \/ /\ disturbanceConfig.thrust.enabled
        /\ disturbanceConfig' =
             [disturbanceConfig EXCEPT !.thrust.magnitude = R(2, 10)]
  /\ animate' = registerAnimate(pidConfig)
  /\ RunAnimateEffect(pending, animationFrameRef)
  /\ droneLast' = Command("setDisturbanceConfig")
  /\ commands' = commands + 1
  /\ UNCHANGED <<sim, angleVars, harnessVars, cartVars, physicsState, leftThrust, rightThrust,
                 pidConfig, attitudePID, horizontalPositionPID,
                 verticalPositionPID, windState, frames, reenable>>

\* The effect on [pidConfig]: setGains on the three controllers.
gainEffect(cfg, att, hor, ver) ==
  [attitude |-> setGains(att, cfg.attitude.kp, cfg.attitude.ki, cfg.attitude.kd),
   horizontal |-> setGains(hor, cfg.position.horizontal.kp,
                           cfg.position.horizontal.ki, cfg.position.horizontal.kd),
   vertical |-> setGains(ver, cfg.position.vertical.kp,
                         cfg.position.vertical.ki, cfg.position.vertical.kd)]

\* The effect on [pidConfig.enabled]: reset of the three controllers when
\* the PID system is disabled.
resetEffect(cfg, cs) ==
  IF ~cfg.enabled
  THEN [attitude |-> reset(cs.attitude), horizontal |-> reset(cs.horizontal),
        vertical |-> reset(cs.vertical)]
  ELSE cs

\* The PID checkbox: setPidConfig(prev => ({...prev, enabled})); both PID
\* effects run, the animate effect does not (pidConfig is not among its deps).
SetPidEnabled ==
  /\ sim = "drone"
  /\ commands < MaxCommands
  /\ pidConfig' = [pidConfig EXCEPT !.enabled = ~@]
  /\ LET cs == resetEffect(pidConfig', gainEffect(pidConfig', attitudePID,
                              horizontalPositionPID, verticalPositionPID))
     IN  /\ attitudePID' = cs.attitude
         /\ horizontalPositionPID' = cs.horizontal
         /\ verticalPositionPID' = cs.vertical
  /\ reenable' = IF pidConfig'.enabled THEN "armed"
                 ELSE IF reenable = "armed" THEN "idle" ELSE reenable
  /\ droneLast' = Command("setPidEnabled")
  /\ commands' = commands + 1
  /\ UNCHANGED <<sim, angleVars, harnessVars, cartVars, physicsState, leftThrust, rightThrust,
                 disturbanceConfig, windState, animate, pending,
                 animationFrameRef, frames>>

\* A gain slider (shown while the PID system is enabled):
\* setPidConfig(prev => ...) with one gain replaced; the effect on
\* [pidConfig] runs, the animate effect does not.
SetPidGain ==
  /\ sim = "drone"
  /\ commands < MaxCommands
  /\ pidConfig.enabled
  /\ \E loop \in {"attitude", "horizontal", "vertical"}, k \in {"kp", "ki", "kd"} :
       \E v \in GainValues(loop, k) :
         pidConfig' =
           IF loop = "attitude" THEN [pidConfig EXCEPT !.attitude[k] = v]
           ELSE [pidConfig EXCEPT !.position[loop][k] = v]
  /\ LET cs == gainEffect(pidConfig', attitudePID, horizontalPositionPID,
                          verticalPositionPID)
     IN  /\ attitudePID' = cs.attitude
         /\ horizontalPositionPID' = cs.horizontal
         /\ verticalPositionPID' = cs.vertical
  /\ droneLast' = Command("setPidGain")
  /\ commands' = commands + 1
  /\ UNCHANGED <<sim, angleVars, harnessVars, cartVars, physicsState, leftThrust, rightThrust,
                 disturbanceConfig, windState, animate, pending,
                 animationFrameRef, frames, reenable>>

DroneNext ==
  \/ AnimationFrame
  \/ SetLeftThrust
  \/ SetRightThrust
  \/ SetDisturbanceConfig
  \/ SetPidEnabled
  \/ SetPidGain

DroneInit ==
  sim = "drone" /\ DroneMounted /\ HarnessIdle /\ CartMounted /\ AngleIdle

SpecDrone == DroneInit /\ [][DroneNext]_vars

\* ------------------------------------------------------------------------
\* Cart-pole simulator: ticks and host commands
\* ------------------------------------------------------------------------

\* Values typed into a gain field (type="number": any number, an empty
\* field reads as 0).
CartGainValues == { I(0) }

\* The reset button was pressed and no tick has run since.
sinceReset == cartLast.op # "tick" /\ cartLast.afterReset

\* A start button: the run is running after it, whatever it was before.
toggleRunningStarts(prev) == TRUE

\* The reset button leaving the accumulated integral in place.
resetControllerKeepsIntegral(prev) == [prev EXCEPT !.lastError = I(0)]

\* The interval effect runs after a render, changed telling whether one of
\* its dependencies (isRunning, force, isAutoPilot, pidController) changed and
\* running the isRunning of the render.
RunIntervalEffect(changed, running) ==
  \E e \in { intervalEffect(intervals, intervalCleanup, changed, running) } :
    intervals' = e.intervals /\ intervalCleanup' = e.handle

\* One tick of an active interval: the setState updater computes the force,
\* runs updatePhysics and applies the failure check; calculatePIDControl has
\* written into the controller object by then.  A failure sets isRunning,
\* and the interval effect runs.
Tick ==
  /\ sim = "cart"
  /\ ticks < MaxTicks
  /\ intervals # {}
  /\ \E p \in { IF isAutoPilot THEN calculatePIDControl(state, pidController)
                               ELSE [force |-> force, controller |-> pidController] } :
       \E newState \in { cartUpdatePhysics(state, p.force) } :
         /\ pidController' = p.controller
         /\ IF failed(newState)
            THEN isRunning' = FALSE /\ state' = state
            ELSE isRunning' = isRunning /\ state' = newState
         /\ RunIntervalEffect(failed(newState) /\ isRunning,
                              isRunning /\ ~failed(newState))
         /\ cartLast' = [op |-> "tick", pre |-> state, prePid |-> pidController,
                         computed |-> newState, wasRunning |-> isRunning,
                         afterReset |-> sinceReset, hadHistory |-> cartLast.hadHistory,
                         twice |-> FALSE, origin |-> isRunning,
                         order |-> cartTickOrder(isAutoPilot),
                         successes |-> IF failed(newState)
                                       THEN cartLast.successes
                                       ELSE cartLast.successes + 1]
  /\ ticks' = ticks + 1
  /\ UNCHANGED <<sim, angleVars, harnessVars, droneVars, force, isAutoPilot, cartCommands>>

\* A command's record in cartLast.  afterReset: the reset button was pressed
\* and no tick has run since; hadHistory: that reset found a State other than
\* the initial one and a nonzero integral and last error; twice: this is a
\* start/stop command given right after another, and origin is then the
\* running status before the first of the two; successes: the ticks since the
\* last reset (or the mount) whose State was stored.
CartCommand(op) ==
  [op |-> op, pre |-> state, prePid |-> pidController, computed |-> state,
   wasRunning |-> isRunning,
   afterReset |-> op = "reset" \/ sinceReset,
   hadHistory |-> IF op = "reset"
                  THEN /\ state # InitialCartPoleState
                       /\ pidController.integral # I(0)
                       /\ pidController.lastError # I(0)
                  ELSE cartLast.hadHistory,
   twice |-> op = "startStop" /\ cartLast.op = "startStop",
   origin |-> IF op = "startStop" /\ cartLast.op = "startStop"
              THEN cartLast.wasRunning ELSE isRunning,
   order |-> <<>>,
   successes |-> IF op = "reset" THEN 0 ELSE cartLast.successes]

\* setIsRunning(prev => !prev)
toggleRunning(prev) == ~prev

\* setPidController(prev => ({...prev, integral: 0, lastError: 0}))
resetController(prev) == [prev EXCEPT !.integral = I(0), !.lastError = I(0)]

\* The reset button.
CartReset ==
  /\ sim = "cart"
  /\ cartCommands < MaxCartCommands
  /\ state' = InitialCartPoleState
  /\ pidController' = resetController(pidController)
  /\ isRunning' = TRUE
  /\ RunIntervalEffect(TRUE, TRUE)
  /\ cartLast' = CartCommand("reset")
  /\ cartCommands' = cartCommands + 1
  /\ UNCHANGED <<sim, angleVars, harnessVars, droneVars, force, isAutoPilot, ticks>>

\* The start/stop button.
StartStop ==
  /\ sim = "cart"
  /\ cartCommands < MaxCartCommands
  /\ isRunning' = toggleRunning(isRunning)
  /\ RunIntervalEffect(toggleRunning(isRunning) # isRunning, toggleRunning(isRunning))
  /\ cartLast' = CartCommand("startStop")
  /\ cartCommands' = cartCommands + 1
  /\ UNCHANGED <<sim, angleVars, harnessVars, droneVars, state, pidController, force,
                 isAutoPilot, ticks>>

\* The PID on/off button.
ToggleAutoPilot ==
  /\ sim = "cart"
  /\ cartCommands < MaxCartCommands
  /\ isAutoPilot' = ~isAutoPilot
  /\ RunIntervalEffect(TRUE, isRunning)
  /\ cartLast' = CartCommand("toggleAutoPilot")
  /\ cartCommands' = cartCommands + 1
  /\ UNCHANGED <<sim, angleVars, harnessVars, droneVars, state, pidController, isRunning,
                 force, ticks>>

\* handleKeyDown (listening only while the autopilot is off): ArrowLeft and
\* ArrowRight set the force.
KeyDown ==
  /\ sim = "cart"
  /\ cartCommands < MaxCartCommands
  /\ ~isAutoPilot
  /\ \E f \in { Neg(maxForce), maxForce } :
       force' = f /\ RunIntervalEffect(f # force, isRunning)
  /\ cartLast' = CartCommand("keyDown")
  /\ cartCommands' = cartCommands + 1
  /\ UNCHANGED <<sim, angleVars, harnessVars, droneVars, state, pidController, isRunning,
                 isAutoPilot, ticks>>

\* handleKeyUp (listening only while the autopilot is off).
KeyUp ==
  /\ sim = "cart"
  /\ cartCommands < MaxCartCommands
  /\ ~isAutoPilot
  /\ force' = I(0)
  /\ RunIntervalEffect(force # I(0), isRunning)
  /\ cartLast' = CartCommand("keyUp")
  /\ cartCommands' = cartCommands + 1
  /\ UNCHANGED <<sim, angleVars, harnessVars, droneVars, state, pidController, isRunning,
                 isAutoPilot, ticks>>

\* updateGain(type, value): setPidController(prev => ({...prev, [type]: value}))
updateGain ==
  /\ sim = "cart"
  /\ cartCommands < MaxCartCommands
  /\ \E type \in {"kp", "ki", "kd"}, value \in CartGainValues :
       pidController' = [pidController EXCEPT ![type] = value]
  /\ RunIntervalEffect(TRUE, isRunning)
  /\ cartLast' = CartCommand("updateGain")
  /\ cartCommands' = cartCommands + 1
  /\ UNCHANGED <<sim, angleVars, harnessVars, droneVars, state, isRunning, force,
                 isAutoPilot, ticks>>

CartNext ==
  \/ Tick
  \/ CartReset
  \/ StartStop
  \/ ToggleAutoPilot
  \/ KeyDown
  \/ KeyUp
  \/ updateGain

CartInit ==
  sim = "cart" /\ DroneMounted /\ HarnessIdle /\ CartMounted /\ AngleIdle

SpecCart == CartInit /\ [][CartNext]_vars

\* ------------------------------------------------------------------------
\* The angle normalisation of the cart-pole, applied to given angles
\* ------------------------------------------------------------------------

\* Values of newTheta = theta + dtheta * dt: the multiples of 1/20 rad, the
\* same angles with one digit below the resolution 1/Scale (a number smaller
\* than 2 PI has digits that a sum of the size of 2 PI does not keep), and the
\* angles at and next to PI, -PI, 2 PI and -2 PI.
Angles ==
  { R(k, 20) : k \in (0 - MaxAngle)..MaxAngle }
    \cup { Add(R(k, 20), R(1, 2 * Scale)) : k \in (0 - MaxAngle)..MaxAngle }
    \cup { Add(Mul(I(m), PI), R(e, 1000)) : m \in {-2, -1, 1, 2}, e \in {-1, 0, 1} }

AngleInit ==
  /\ sim = "angle"
  /\ newTheta \in Angles
  /\ finalTheta = newTheta
  /\ applications = 0
  /\ HarnessIdle /\ DroneMounted /\ CartMounted

\* const finalTheta = ... : the normalisation applied to the angle in hand.
Normalize ==
  /\ sim = "angle"
  /\ applications < MaxApplications
  /\ finalTheta' = normalizeTheta(finalTheta)
  /\ applications' = applications + 1
  /\ UNCHANGED <<sim, newTheta, harnessVars, droneVars, cartVars>>

AngleNext == Normalize

SpecAngle == AngleInit /\ [][AngleNext]_vars

\* ------------------------------------------------------------------------
\* The parts together
\* ------------------------------------------------------------------------

Init == HarnessInit \/ DroneInit \/ CartInit \/ AngleInit

Next == HarnessNext \/ DroneNext \/ CartNext \/ AngleNext

Spec == Init /\ [][Next]_vars

\* ------------------------------------------------------------------------
\* Claims about PIDController
\* ------------------------------------------------------------------------

\* clamp(v, lo, hi) as the claims write it.
Clamped(v, lo, hi) == IF Lt(v, lo) THEN lo ELSE IF Gt(v, hi) THEN hi ELSE v

\* kp*error + ki*integral of the controller as stored (prevError is the
\* error of the last update).
PITerm(c) == Add(Mul(c.kp, c.prevError), Mul(c.ki, c.integral))

C4_KiZeroGuard ==
  (/\ sim = "pid" /\ last.op = "update"
   /\ pid.ki = I(0) /\ Gt(last.dt, I(0))
   /\ IsFinite(last.pre.integral))
  => /\ pid.integral = Add(last.pre.integral, Mul(pid.prevError, last.dt))
     /\ IsFinite(pid.integral)
     /\ IsFinite(last.output)

\* C6: with ki = 0 and kd = 0, every update with dt > 0 returns
\* clamp(kp*(setpoint - measured), outputMin, outputMax), whatever the
\* earlier calls were.
C6_PureProportional ==
  (/\ sim = "pid" /\ last.op = "update"
   /\ pid.ki = I(0) /\ pid.kd = I(0) /\ Gt(last.dt, I(0)))
  => last.output =
       Clamped(Mul(pid.kp, Sub(last.setpoint, last.measured)),
               pid.outputMin, pid.outputMax)

\* C7: reset() followed by update(s, m, dt) returns the output, and stores
\* the integral and last error, that update(s, m, dt) gives on a freshly
\* constructed controller with the same gains and clamp bounds.
C7_ResetEquivalence ==
  (sim = "pid" /\ last.op = "update" /\ last.afterReset)
  => LET fresh == update(PIDController(pid.kp, pid.ki, pid.kd,
                                       pid.outputMin, pid.outputMax),
                         last.setpoint, last.measured, last.dt)
     IN  /\ last.output = fresh.output
         /\ pid.integral = fresh.ctrl.integral
         /\ pid.prevError = fresh.ctrl.prevError

\* C7 witness: an update right after a reset that cleared a nonzero integral
\* and a nonzero last error, with ki and kd in use and a nonzero error.
C7_Witness ==
  /\ sim = "pid" /\ last.op = "update" /\ last.afterReset /\ last.hadHistory
  /\ Gt(pid.ki, I(0)) /\ Gt(pid.kd, I(0)) /\ Gt(last.dt, I(0))
  /\ pid.prevError # I(0)

\* C8: reset() zeroes integral and last error and leaves kp, ki, kd,
\* outputMin and outputMax as they were.
C8_ResetFrame ==
  (sim = "pid" /\ last.op = "reset")
  => /\ pid.integral = I(0) /\ pid.prevError = I(0)
     /\ pid.kp = last.pre.kp /\ pid.ki = last.pre.ki /\ pid.kd = last.pre.kd
     /\ pid.outputMin = last.pre.outputMin /\ pid.outputMax = last.pre.outputMax

\* C8 witness: a reset of a controller with nonzero gains, integral and
\* last error.
C8_Witness ==
  /\ sim = "pid" /\ last.op = "reset"
  /\ last.pre.integral # I(0) /\ last.pre.prevError # I(0)
  /\ last.pre.kp # I(0) /\ last.pre.ki # I(0) /\ last.pre.kd # I(0)

\* ------------------------------------------------------------------------
\* Claims about the drone simulator
\* ------------------------------------------------------------------------

\* lo <= v <= hi
Within(v, lo, hi) == Le(lo, v) /\ Le(v, hi)

\* C2: boundary policy.  After every tick position.x is in [10, 590] and
\* position.y is in [10, 290], and an axis whose position lies on a bound
\* has velocity 0.
C2_BoundaryPolicy ==
  (sim = "drone" /\ droneLast.op = "frame")
  => /\ Within(physicsState.position.x, I(10), I(590))
     /\ Within(physicsState.position.y, I(10), I(290))
     /\ (physicsState.position.x \in {I(10), I(590)}
           => physicsState.velocity.x = I(0))
     /\ (physicsState.position.y \in {I(10), I(290)}
           => physicsState.velocity.y = I(0))

\* C5: dt <= 0 guard.  After a tick whose time step is zero or negative the
\* thrusts handed to the dynamics and every component of the PhysicsState
\* are finite numbers.
C5_DtGuard ==
  (sim = "drone" /\ droneLast.op = "frame" /\ Le(droneLast.dt, I(0)))
  => /\ IsFinite(droneLast.left) /\ IsFinite(droneLast.right)
     /\ IsFinite(physicsState.position.x) /\ IsFinite(physicsState.position.y)
     /\ IsFinite(physicsState.velocity.x) /\ IsFinite(physicsState.velocity.y)
     /\ IsFinite(physicsState.rotation) /\ IsFinite(physicsState.angularVelocity)

\* C10: PID re-enable.  The first controller update that runs after the PID
\* system was disabled and then enabled again never finds a nonzero integral
\* or last error in any of the three controllers.
C10_ReenableReset == sim = "drone" => reenable # "nonzero"

\* ------------------------------------------------------------------------
\* Claims about the cart-pole simulator
\* ------------------------------------------------------------------------

\* |cart position| > 2.4 or |pole angle| > pi/2
OutOfBounds(s) ==
  \/ Lt(R(24, 10), s.x) \/ Lt(s.x, R(-24, 10))
  \/ Lt(Div(PI, I(2)), s.theta) \/ Lt(s.theta, Neg(Div(PI, I(2))))

KeepsHistory(c, d) ==
  /\ d.integral = c.integral /\ d.prevError = c.prevError
  /\ d.outputMin = c.outputMin /\ d.outputMax = c.outputMax

\* C9: live gain tuning keeps history.  A step that updates gains
\* (setGains on a PIDController, the drone's gain effect after a gain slider
\* or after enabling the PID system, updateGain in the cart-pole) leaves the
\* integral, the last error and the clamp bounds of every controller as
\* they were.
C9_GainTuningKeepsHistory ==
  [][ /\ (sim = "pid" /\ last'.op = "setGains") => KeepsHistory(pid, pid')
      /\ (/\ sim = "drone"
          /\ \/ droneLast'.op = "setPidGain"
             \/ droneLast'.op = "setPidEnabled" /\ pidConfig'.enabled)
           => /\ KeepsHistory(attitudePID, attitudePID')
              /\ KeepsHistory(horizontalPositionPID, horizontalPositionPID')
              /\ KeepsHistory(verticalPositionPID, verticalPositionPID')
      /\ (sim = "cart" /\ cartLast'.op = "updateGain")
           => /\ pidController'.integral = pidController.integral
              /\ pidController'.lastError = pidController.lastError
              /\ pidController'.target = pidController.target ]_vars

\* C9 witness: a gain slider moved between two frames of the running drone
\* simulation, the controllers holding a nonzero integral and last error.
C9_Witness ==
  /\ sim = "drone" /\ droneLast.op = "setPidGain"
  /\ frames > 0 /\ frames < MaxFrames /\ animate.pidEnabled
  /\ IsFinite(attitudePID.integral) /\ attitudePID.integral # I(0)
  /\ IsFinite(attitudePID.prevError) /\ attitudePID.prevError # I(0)
  /\ horizontalPositionPID.integral # I(0)

\* ------------------------------------------------------------------------
\* Claims about disabling the controller
\* ------------------------------------------------------------------------

\* The integral and the last error of a PIDController object are 0.
NoHistory(c) == c.integral = I(0) /\ c.prevError = I(0)

\* C11: controller disable resets transient state.  While the cart-pole
\* autopilot is off the controller's integral and last error are 0, and
\* while the drone's PID-enabled flag is cleared the integral and last error
\* of its three controllers are 0.
C11_DisableResets ==
  /\ (sim = "cart" /\ ~isAutoPilot)
       => pidController.integral = I(0) /\ pidController.lastError = I(0)
  /\ (sim = "drone" /\ ~pidConfig.enabled)
       => /\ NoHistory(attitudePID)
          /\ NoHistory(horizontalPositionPID)
          /\ NoHistory(verticalPositionPID)

\* ------------------------------------------------------------------------
\* Claims about the cart-pole commands
\* ------------------------------------------------------------------------

\* The force of a tick that starts from State st with controller c.
TickForce(st, c) ==
  IF isAutoPilot THEN calculatePIDControl(st, c).force ELSE force

\* C12: cart-pole reset.  The reset command leaves State equal to the
\* initial values and the controller's integral and last error equal to 0
\* while keeping the gains and the target, and the first tick after a reset
\* starts from, and is computed from, exactly these values.
C12_CartReset ==
  sim = "cart"
  => /\ cartLast.op = "reset"
          => /\ state = InitialCartPoleState
             /\ pidController.integral = I(0) /\ pidController.lastError = I(0)
             /\ pidController.kp = cartLast.prePid.kp
             /\ pidController.ki = cartLast.prePid.ki
             /\ pidController.kd = cartLast.prePid.kd
             /\ pidController.target = cartLast.prePid.target
     /\ (cartLast.op = "tick" /\ cartLast.afterReset)
          => /\ cartLast.pre = InitialCartPoleState
             /\ cartLast.prePid.integral = I(0) /\ cartLast.prePid.lastError = I(0)
             /\ cartLast.computed =
                  cartUpdatePhysics(InitialCartPoleState,
                                    TickForce(InitialCartPoleState, cartLast.prePid))

\* C12 witness: the first tick after a reset, under the autopilot, where the
\* reset found a run that had moved the State and left a nonzero integral
\* and last error.
C12_Witness ==
  /\ sim = "cart" /\ cartLast.op = "tick" /\ cartLast.afterReset
  /\ cartLast.hadHistory /\ isAutoPilot
  /\ state = cartLast.computed /\ state.score = 1

\* C13 as stated: start/stop is idempotent.  After two start/stop commands
\* in a row the running status is the one the first of them left.
C13_StartStopIdempotent ==
  (sim = "cart" /\ cartLast.op = "startStop" /\ cartLast.twice)
    => isRunning = cartLast.wasRunning

\* C13 as amended: start/stop is a toggle.  Every start/stop command inverts
\* the running status, and two in a row, with no tick failure in between,
\* leave the status that held before the first.
C13_StartStopToggle ==
  (sim = "cart" /\ cartLast.op = "startStop")
    => /\ isRunning = ~cartLast.wasRunning
       /\ cartLast.twice => isRunning = cartLast.origin

\* C13 witness: two start/stop commands in a row on a run that had ticked.
C13_Witness ==
  /\ sim = "cart" /\ cartLast.op = "startStop" /\ cartLast.twice
  /\ state.score > 0 /\ cartLast.origin

\* ------------------------------------------------------------------------
\* Claims about the drone's ticks
\* ------------------------------------------------------------------------

\* The controller c holds the gains g of the configuration.
HasGains(c, g) == c.kp = g.kp /\ c.ki = g.ki /\ c.kd = g.kd

\* C14: configuration visibility.  Every tick runs under the configuration
\* in force when it begins: it runs the controller cascade exactly if the
\* PID-enabled flag is set, with the gains of the configuration, and with
\* the flag cleared it hands the manual left and right thrust to the
\* dynamics.
C14_ConfigVisibility ==
  (sim = "drone" /\ droneLast.op = "frame")
    => /\ droneLast.ranPid = pidConfig.enabled
       /\ ~pidConfig.enabled
            => droneLast.left = leftThrust /\ droneLast.right = rightThrust
       /\ HasGains(attitudePID, pidConfig.attitude)
       /\ HasGains(horizontalPositionPID, pidConfig.position.horizontal)
       /\ HasGains(verticalPositionPID, pidConfig.position.vertical)

\* C15: drone control mixing.  On every tick with PID enabled the thrusts
\* given to the dynamics are clamp(4.9 + vertical + attitude, 0, 100) and
\* clamp(4.9 + vertical - attitude, 0, 100), the attitude output is that of
\* the attitude controller for the negated horizontal output as target
\* rotation, and both thrusts lie within [0, 100].
C15_ControlMixing ==
  (sim = "drone" /\ droneLast.op = "frame" /\ droneLast.ranPid)
    => /\ droneLast.left =
            Clamped(Add(Add(R(49, 10), droneLast.verticalControl),
                        droneLast.attitudeControl), I(0), I(100))
       /\ droneLast.right =
            Clamped(Sub(Add(R(49, 10), droneLast.verticalControl),
                        droneLast.attitudeControl), I(0), I(100))
       /\ droneLast.targetRotation = Neg(droneLast.horizontalControl)
       /\ droneLast.attitudeControl =
            update(droneLast.attitudeBefore, Neg(droneLast.horizontalControl),
                   droneLast.rotation, droneLast.dt).output
       /\ Within(droneLast.left, I(0), I(100))
       /\ Within(droneLast.right, I(0), I(100))

\* A tick by hand with no force, from the State pre.
ZeroForceTick(pre) ==
  /\ sim = "cart" /\ cartLast.op = "tick" /\ cartLast.pre = pre
  /\ ~isAutoPilot /\ force = I(0)

\* C16 as stated: one tick from the initial state with force 0 yields a State
\* whose |theta| is strictly greater than 0.1 and whose score is 1.
C16_OneTickTheta ==
  ZeroForceTick(InitialCartPoleState)
    => /\ Gt(MathAbs(cartLast.computed.theta), R(1, 10))
       /\ cartLast.computed.score = 1

\* C16 as amended: one tick from the initial state with force 0 yields a
\* State whose score is 1 and whose angular velocity is strictly positive,
\* with |theta| not greater than 0.1 (theta is advanced by the angular
\* velocity before the tick, which is 0); |theta| is strictly greater than
\* 0.1 after the second such tick.
C16_TwoTicksTheta ==
  /\ ZeroForceTick(InitialCartPoleState)
       => /\ cartLast.computed.score = 1
          /\ Gt(cartLast.computed.dtheta, I(0))
          /\ Le(MathAbs(cartLast.computed.theta), R(1, 10))
  /\ ZeroForceTick(cartUpdatePhysics(InitialCartPoleState, I(0)))
       => /\ cartLast.computed.score = 2
          /\ Gt(MathAbs(cartLast.computed.theta), R(1, 10))

\* C16 witness: the second tick of a run by hand from the initial state with
\* no force, stored as the State.
C16_Witness ==
  /\ ZeroForceTick(cartUpdatePhysics(InitialCartPoleState, I(0)))
  /\ state = cartLast.computed

\* ------------------------------------------------------------------------
\* Claims about the angle normalisation
\* ------------------------------------------------------------------------

\* -pi < v <= pi
InHalfOpenTurn(v) == Gt(v, Neg(PI)) /\ Le(v, PI)

\* The angles above PI by no more than 0.01.
JustAbove(v, a) == Gt(v, a) /\ Le(v, Add(a, R(1, 100)))

\* C17: cart-pole angle normalisation.  After every integration step the
\* stored pole angle lies in (-pi, pi]; the normalisation maps an angle of
\* exactly pi to pi and an angle just above pi to one just above -pi, and
\* applied (once, or once more) to an angle already in (-pi, pi] it returns
\* that angle unchanged.
C17_AngleNormalization ==
  /\ sim = "cart" => InHalfOpenTurn(state.theta)
  /\ (sim = "cart" /\ cartLast.op = "tick")
       => InHalfOpenTurn(cartLast.computed.theta)
  /\ (sim = "angle" /\ applications >= 1)
       => /\ InHalfOpenTurn(finalTheta)
          /\ newTheta = PI => finalTheta = PI
          /\ JustAbove(newTheta, PI) => JustAbove(finalTheta, Neg(PI))
          /\ InHalfOpenTurn(newTheta) => finalTheta = newTheta

\* ------------------------------------------------------------------------
\* Claims about the order of the parts of a tick
\* ------------------------------------------------------------------------

\* In the sequence order, every occurrence of a comes before every
\* occurrence of b.
Precedes(order, a, b) ==
  \A i, j \in 1..Len(order) : (order[i] = a /\ order[j] = b) => i < j

\* The part of a tick that yields the actuation.
Actuation == {"control", "manual"}

C19_NoOverlappingTicks ==
  /\ sim = "drone" => Cardinality(pending) <= 1
  /\ sim = "cart" => /\ Cardinality(intervals) <= 1
                     /\ ~isRunning => intervals = {}

\* A frame has run after a host command re-ran the animate effect, and a
\* callback is pending.
C19_Witness ==
  /\ sim = "drone"
  /\ droneLast.op = "frame"
  /\ commands > 0
  /\ frames >= 2
  /\ Cardinality(pending) = 1


\* ---------------------------------------------------------------------------
\* C20  Wind clock: a tick with the wind model enabled increases the wind
\* clock by exactly the dt of that tick, a tick with the wind model disabled
\* leaves it unchanged and has wind force 0, and no other operation changes
\* it, so it never decreases.
C20_WindClock ==
  [][sim = "drone" =>
       /\ IF frames' = frames + 1
          THEN IF disturbanceConfig.wind.enabled
               THEN windState'.time = Add(windState.time, droneLast'.dt)
               ELSE /\ windState'.time = windState.time
                    /\ droneLast'.windForce = I(0)
          ELSE windState'.time = windState.time
       /\ ~Lt(windState'.time, windState.time)]_vars


\* ------------------------------------------------------------------------
\* Claims about the score of the cart-pole
\* ------------------------------------------------------------------------

\* The commands the claim names as leaving the score alone.
KeepsScore == {"startStop", "updateGain", "toggleAutoPilot"}

\* C21: cart-pole score.  In every reachable state the score equals the
\* number of ticks since the last reset whose computed state was within the
\* bounds; such a tick raises the score by exactly 1, a tick whose computed
\* state is out of bounds, a start/stop toggle, a gain change and an autopilot
\* toggle leave it unchanged, and a reset sets it to 0.
C21_Score ==
  sim = "cart"
  => /\ state.score = cartLast.successes
     /\ (cartLast.op = "tick" /\ ~OutOfBounds(cartLast.computed))
          => state.score = cartLast.pre.score + 1
     /\ (cartLast.op = "tick" /\ OutOfBounds(cartLast.computed))
          => state.score = cartLast.pre.score
     /\ cartLast.op \in KeepsScore => state.score = cartLast.pre.score
     /\ cartLast.op = "reset" => state.score = 0

\* C21 witness: after a command, a tick of a run that had scored computed a
\* state out of bounds, and fewer ticks had counted than had run before it (a
\* reset or an earlier failing tick lies between).
C21_Witness ==
  /\ sim = "cart" /\ cartLast.op = "tick"
  /\ OutOfBounds(cartLast.computed)
  /\ cartLast.pre.score > 0
  /\ cartCommands > 0
  /\ cartLast.successes < ticks - 1


\* ------------------------------------------------------------------------
\* Claims about the direction of the control loops of the drone
\* ------------------------------------------------------------------------

\* A frame that ran the controller cascade on freshly reset controllers.
FreshPidFrame ==
  /\ sim = "drone" /\ droneLast.op = "frame"
  /\ pidConfig.enabled /\ droneLast.ranPid /\ droneLast.fresh

\* C22: the attitude loop is corrective.  On a tick with the PID system
\* enabled, unit thrust efficiencies, zero centre-of-mass offset, no thrust
\* noise and freshly reset controllers, the torque of the mixed thrusts is
\* >= 0 when the rotation is below the target rotation and <= 0 when it is
\* above it.
C22_AttitudeCorrective ==
  ( /\ FreshPidFrame
    /\ DEFAULT_PHYSICS_PARAMS.LEFT_THRUST_EFFICIENCY = I(1)
    /\ DEFAULT_PHYSICS_PARAMS.RIGHT_THRUST_EFFICIENCY = I(1)
    /\ DEFAULT_PHYSICS_PARAMS.CENTER_OF_MASS_OFFSET = I(0)
    /\ droneLast.thrustNoise = [left |-> I(1), right |-> I(1)] )
  => /\ Gt(droneLast.targetRotation, droneLast.rotation)
          => ~Lt(droneLast.torque, I(0))
     /\ Lt(droneLast.targetRotation, droneLast.rotation)
          => ~Gt(droneLast.torque, I(0))


\* C23: the vertical loop is corrective.  On a tick with the PID system
\* enabled and a freshly reset vertical controller (integral and previous
\* error 0), the vertical output added to both thrusts is >= 0 when the drone
\* is below the target altitude (position.y > 150) and <= 0 when it is above
\* it (position.y < 150).
C23_VerticalCorrective ==
  ( /\ sim = "drone" /\ droneLast.op = "frame"
    /\ pidConfig.enabled /\ droneLast.ranPid
    /\ droneLast.verticalFresh )
  => /\ Gt(droneLast.position.y, I(150))
          => ~Lt(droneLast.verticalControl, I(0))
     /\ Lt(droneLast.position.y, I(150))
          => ~Gt(droneLast.verticalControl, I(0))


\* ------------------------------------------------------------------------
\* Claims about what a failing tick of the cart-pole leaves behind
\* ------------------------------------------------------------------------

\* C24: a failing cart-pole tick changes nothing but the running flag.  After
\* a tick in autopilot mode whose computed state is out of bounds and is
\* discarded, the State is the one before the tick and the controller's
\* integral and last error equal their values before the tick.
C24_FailingTickFrame ==
  ( /\ sim = "cart" /\ cartLast.op = "tick"
    /\ isAutoPilot
    /\ OutOfBounds(cartLast.computed) )
  => /\ state = cartLast.pre
     /\ pidController.integral = cartLast.prePid.integral
     /\ pidController.lastError = cartLast.prePid.lastError

=============================================================================
